---- MODULE Spec2Model ----
(***************************************************************************)
(* Model of update_tui.py: a one-shot script that reads a file, applies    *)
(* re.sub(old_pattern, new_replacement, content, flags=re.MULTILINE) and   *)
(* writes the result back to the same path, then prints a confirmation.    *)
(*                                                                         *)
(* Text is modelled as it is in Python: a str is a sequence of code        *)
(* points, the file on disk is a sequence of bytes, and the text-mode      *)
(* open() converts between the two (UTF-8, universal newlines).            *)
(*                                                                         *)
(* A step of the model is what the script does between two points at which *)
(* another process can act on the file: an open, the fstat and each read() *)
(* system call of f.read(), the substitution, the write, the print.        *)
(***************************************************************************)
EXTENDS Naturals, Sequences, FiniteSets

VARIABLES
  disk,         \* the file at the path: [exists, bytes]
  perm,         \* its access rights: [r, w]
  matcher,      \* the pattern handed to re.sub (a str)
  replacement,  \* the replacement handed to re.sub (a str)
  pc,           \* per running script: the statement it is about to execute
  content,      \* per running script: the variable `content`
  err,          \* per running script: the exception that ended it, or "none"
  rfd,          \* per running script: the read handle is open
  rbuf,         \* per running script: the bytes f.read() has read so far
  rcap,         \* per running script: the size of f.read()'s buffer (0: not set)
  wfd,          \* per running script: the write handle is open
  out,          \* per running script: the lines printed to stdout
  log,          \* history: the statements each script has completed
  nmatch,       \* history: the number of substitutions made by each run
  orig,         \* history: the file as it was when the current run started
  runs,         \* history: the number of runs completed before the current one
  lastWriter,   \* history: the script whose write completed last (0: none)
  fileOps       \* history: the truncations and completed writes of the run, in order

vars == <<disk, perm, matcher, replacement, pc, content, err, rfd, rbuf, rcap,
          wfd, out, log, nmatch, orig, runs, lastWriter, fileOps>>

(***************************************************************************)
(* Bounds of the model.                                                    *)
(***************************************************************************)
\* The initial file is a concatenation of at most MaxSegs segments.
MaxSegs == 2
\* The same, for the two-script race.
MaxRaceSegs == 1
\* The script is run at most MaxRuns times in a row.
MaxRuns == 2

(***************************************************************************)
(* Sequence helpers.                                                       *)
(***************************************************************************)
RECURSIVE Flat(_, _, _)
\* f[lo] \o ... \o f[hi], for a function f of sequences.
Flat(f, lo, hi) ==
  IF lo > hi THEN <<>>
  ELSE IF lo = hi THEN f[lo]
  ELSE LET mid == (lo + hi) \div 2
       IN  Flat(f, lo, mid) \o Flat(f, mid + 1, hi)

Min(S) == CHOOSE x \in S : \A y \in S : x <= y

(***************************************************************************)
(* The constants of the script, as Python str values (code points).        *)
(***************************************************************************)
\* src line 10-19: the raw string r'''...''' (backslashes are kept as written).
old_pattern ==
  \* line 10: \t\tfor idx, task := range m\.backlogTasks \{\n
     <<9, 9, 102, 111, 114, 32, 105, 100, 120, 44, 32, 116, 97, 115, 107, 32, 58, 61, 32, 114,
       97, 110, 103, 101, 32, 109, 92, 46, 98, 97, 99, 107, 108, 111, 103, 84, 97, 115, 107, 115,
       32, 92, 123, 10>>
  \* line 11: \t\t\tvar taskLine string\n
  \o <<9, 9, 9, 118, 97, 114, 32, 116, 97, 115, 107, 76, 105, 110, 101, 32, 115, 116, 114, 105,
       110, 103, 10>>
  \* line 12: \t\t\tif m\.selectedItemType == SelectBacklog && idx == m\.selectedBacklogIdx \{\n
  \o <<9, 9, 9, 105, 102, 32, 109, 92, 46, 115, 101, 108, 101, 99, 116, 101, 100, 73, 116, 101,
       109, 84, 121, 112, 101, 32, 61, 61, 32, 83, 101, 108, 101, 99, 116, 66, 97, 99, 107, 108,
       111, 103, 32, 38, 38, 32, 105, 100, 120, 32, 61, 61, 32, 109, 92, 46, 115, 101, 108, 101,
       99, 116, 101, 100, 66, 97, 99, 107, 108, 111, 103, 73, 100, 120, 32, 92, 123, 10>>
  \* line 13: \t\t\t\ttaskLine = fmt\.Sprintf\("U+2192 %s %s", task\.ID, task\.Title\)\n
  \o <<9, 9, 9, 9, 116, 97, 115, 107, 76, 105, 110, 101, 32, 61, 32, 102, 109, 116, 92, 46, 83,
       112, 114, 105, 110, 116, 102, 92, 40, 34, 8594, 32, 37, 115, 32, 37, 115, 34, 44, 32, 116,
       97, 115, 107, 92, 46, 73, 68, 44, 32, 116, 97, 115, 107, 92, 46, 84, 105, 116, 108, 101,
       92, 41, 10>>
  \* line 14: \t\t\t\ts \+= selectedTrackStyle\.Render\(taskLine\) \+ "\\n"\n
  \o <<9, 9, 9, 9, 115, 32, 92, 43, 61, 32, 115, 101, 108, 101, 99, 116, 101, 100, 84, 114, 97,
       99, 107, 83, 116, 121, 108, 101, 92, 46, 82, 101, 110, 100, 101, 114, 92, 40, 116, 97,
       115, 107, 76, 105, 110, 101, 92, 41, 32, 92, 43, 32, 34, 92, 92, 110, 34, 10>>
  \* line 15: \t\t\t\} else \{\n
  \o <<9, 9, 9, 92, 125, 32, 101, 108, 115, 101, 32, 92, 123, 10>>
  \* line 16: \t\t\t\ttaskLine = fmt\.Sprintf\("  %s %s", task\.ID, task\.Title\)\n
  \o <<9, 9, 9, 9, 116, 97, 115, 107, 76, 105, 110, 101, 32, 61, 32, 102, 109, 116, 92, 46, 83,
       112, 114, 105, 110, 116, 102, 92, 40, 34, 32, 32, 37, 115, 32, 37, 115, 34, 44, 32, 116,
       97, 115, 107, 92, 46, 73, 68, 44, 32, 116, 97, 115, 107, 92, 46, 84, 105, 116, 108, 101,
       92, 41, 10>>
  \* line 17: \t\t\t\ts \+= trackItemStyle\.Render\(taskLine\) \+ "\\n"\n
  \o <<9, 9, 9, 9, 115, 32, 92, 43, 61, 32, 116, 114, 97, 99, 107, 73, 116, 101, 109, 83, 116,
       121, 108, 101, 92, 46, 82, 101, 110, 100, 101, 114, 92, 40, 116, 97, 115, 107, 76, 105,
       110, 101, 92, 41, 32, 92, 43, 32, 34, 92, 92, 110, 34, 10>>
  \* line 18: \t\t\t\}\n
  \o <<9, 9, 9, 92, 125, 10>>
  \* line 19: \t\t\}
  \o <<9, 9, 92, 125>>
\* The Go fragment old_pattern describes: old_pattern with its escapes removed.
\* This is the text of the file the script was written to patch.
TargetBlock ==
  \* line 10: \t\tfor idx, task := range m.backlogTasks {\n
     <<9, 9, 102, 111, 114, 32, 105, 100, 120, 44, 32, 116, 97, 115, 107, 32, 58, 61, 32, 114,
       97, 110, 103, 101, 32, 109, 46, 98, 97, 99, 107, 108, 111, 103, 84, 97, 115, 107, 115, 32,
       123, 10>>
  \* line 11: \t\t\tvar taskLine string\n
  \o <<9, 9, 9, 118, 97, 114, 32, 116, 97, 115, 107, 76, 105, 110, 101, 32, 115, 116, 114, 105,
       110, 103, 10>>
  \* line 12: \t\t\tif m.selectedItemType == SelectBacklog && idx == m.selectedBacklogIdx {\n
  \o <<9, 9, 9, 105, 102, 32, 109, 46, 115, 101, 108, 101, 99, 116, 101, 100, 73, 116, 101, 109,
       84, 121, 112, 101, 32, 61, 61, 32, 83, 101, 108, 101, 99, 116, 66, 97, 99, 107, 108, 111,
       103, 32, 38, 38, 32, 105, 100, 120, 32, 61, 61, 32, 109, 46, 115, 101, 108, 101, 99, 116,
       101, 100, 66, 97, 99, 107, 108, 111, 103, 73, 100, 120, 32, 123, 10>>
  \* line 13: \t\t\t\ttaskLine = fmt.Sprintf("U+2192 %s %s", task.ID, task.Title)\n
  \o <<9, 9, 9, 9, 116, 97, 115, 107, 76, 105, 110, 101, 32, 61, 32, 102, 109, 116, 46, 83, 112,
       114, 105, 110, 116, 102, 40, 34, 8594, 32, 37, 115, 32, 37, 115, 34, 44, 32, 116, 97, 115,
       107, 46, 73, 68, 44, 32, 116, 97, 115, 107, 46, 84, 105, 116, 108, 101, 41, 10>>
  \* line 14: \t\t\t\ts += selectedTrackStyle.Render(taskLine) + "\n"\n
  \o <<9, 9, 9, 9, 115, 32, 43, 61, 32, 115, 101, 108, 101, 99, 116, 101, 100, 84, 114, 97, 99,
       107, 83, 116, 121, 108, 101, 46, 82, 101, 110, 100, 101, 114, 40, 116, 97, 115, 107, 76,
       105, 110, 101, 41, 32, 43, 32, 34, 92, 110, 34, 10>>
  \* line 15: \t\t\t} else {\n
  \o <<9, 9, 9, 125, 32, 101, 108, 115, 101, 32, 123, 10>>
  \* line 16: \t\t\t\ttaskLine = fmt.Sprintf("  %s %s", task.ID, task.Title)\n
  \o <<9, 9, 9, 9, 116, 97, 115, 107, 76, 105, 110, 101, 32, 61, 32, 102, 109, 116, 46, 83, 112,
       114, 105, 110, 116, 102, 40, 34, 32, 32, 37, 115, 32, 37, 115, 34, 44, 32, 116, 97, 115,
       107, 46, 73, 68, 44, 32, 116, 97, 115, 107, 46, 84, 105, 116, 108, 101, 41, 10>>
  \* line 17: \t\t\t\ts += trackItemStyle.Render(taskLine) + "\n"\n
  \o <<9, 9, 9, 9, 115, 32, 43, 61, 32, 116, 114, 97, 99, 107, 73, 116, 101, 109, 83, 116, 121,
       108, 101, 46, 82, 101, 110, 100, 101, 114, 40, 116, 97, 115, 107, 76, 105, 110, 101, 41,
       32, 43, 32, 34, 92, 110, 34, 10>>
  \* line 18: \t\t\t}\n
  \o <<9, 9, 9, 125, 10>>
  \* line 19: \t\t}
  \o <<9, 9, 125>>
\* A replacement that puts the old loop back in front of a comment: the block
\* the matcher describes, with its backslashes doubled so that re.sub inserts
\* them as they are.
ReplacementKeepingOld ==
  Flat([i \in 1..Len(TargetBlock) |->
          IF TargetBlock[i] = 92 THEN <<92, 92>> ELSE <<TargetBlock[i]>>],
       1, Len(TargetBlock)) \o <<10, 47, 47>>

\* src line 21-39: the string '''...''' after Python's own unescaping: the
\* source text "\\n" is the two characters backslash, n.
new_replacement ==
  \* line 21: \t\tfor idx, task := range m.backlogTasks {\n
     <<9, 9, 102, 111, 114, 32, 105, 100, 120, 44, 32, 116, 97, 115, 107, 32, 58, 61, 32, 114,
       97, 110, 103, 101, 32, 109, 46, 98, 97, 99, 107, 108, 111, 103, 84, 97, 115, 107, 115, 32,
       123, 10>>
  \* line 22: \t\t\t// Get track information for display\n
  \o <<9, 9, 9, 47, 47, 32, 71, 101, 116, 32, 116, 114, 97, 99, 107, 32, 105, 110, 102, 111, 114,
       109, 97, 116, 105, 111, 110, 32, 102, 111, 114, 32, 100, 105, 115, 112, 108, 97, 121,
       10>>
  \* line 23: \t\t\ttrackInfo := ""\n
  \o <<9, 9, 9, 116, 114, 97, 99, 107, 73, 110, 102, 111, 32, 58, 61, 32, 34, 34, 10>>
  \* line 24: \t\t\tif task.TrackID != "" {\n
  \o <<9, 9, 9, 105, 102, 32, 116, 97, 115, 107, 46, 84, 114, 97, 99, 107, 73, 68, 32, 33, 61,
       32, 34, 34, 32, 123, 10>>
  \* line 25: \t\t\t\ttrack, err := m.repository.GetTrack(m.ctx, task.TrackID)\n
  \o <<9, 9, 9, 9, 116, 114, 97, 99, 107, 44, 32, 101, 114, 114, 32, 58, 61, 32, 109, 46, 114,
       101, 112, 111, 115, 105, 116, 111, 114, 121, 46, 71, 101, 116, 84, 114, 97, 99, 107, 40,
       109, 46, 99, 116, 120, 44, 32, 116, 97, 115, 107, 46, 84, 114, 97, 99, 107, 73, 68, 41,
       10>>
  \* line 26: \t\t\t\tif err == nil && track != nil {\n
  \o <<9, 9, 9, 9, 105, 102, 32, 101, 114, 114, 32, 61, 61, 32, 110, 105, 108, 32, 38, 38, 32,
       116, 114, 97, 99, 107, 32, 33, 61, 32, 110, 105, 108, 32, 123, 10>>
  \* line 27: \t\t\t\t\ttrackInfo = fmt.Sprintf(" [%s]", track.ID)\n
  \o <<9, 9, 9, 9, 9, 116, 114, 97, 99, 107, 73, 110, 102, 111, 32, 61, 32, 102, 109, 116, 46,
       83, 112, 114, 105, 110, 116, 102, 40, 34, 32, 91, 37, 115, 93, 34, 44, 32, 116, 114, 97,
       99, 107, 46, 73, 68, 41, 10>>
  \* line 28: \t\t\t\t}\n
  \o <<9, 9, 9, 9, 125, 10>>
  \* line 29: \t\t\t}\n
  \o <<9, 9, 9, 125, 10>>
  \* line 30: \n
  \o <<10>>
  \* line 31: \t\t\tvar taskLine string\n
  \o <<9, 9, 9, 118, 97, 114, 32, 116, 97, 115, 107, 76, 105, 110, 101, 32, 115, 116, 114, 105,
       110, 103, 10>>
  \* line 32: \t\t\tif m.selectedItemType == SelectBacklog && idx == m.selectedBacklogIdx {\n
  \o <<9, 9, 9, 105, 102, 32, 109, 46, 115, 101, 108, 101, 99, 116, 101, 100, 73, 116, 101, 109,
       84, 121, 112, 101, 32, 61, 61, 32, 83, 101, 108, 101, 99, 116, 66, 97, 99, 107, 108, 111,
       103, 32, 38, 38, 32, 105, 100, 120, 32, 61, 61, 32, 109, 46, 115, 101, 108, 101, 99, 116,
       101, 100, 66, 97, 99, 107, 108, 111, 103, 73, 100, 120, 32, 123, 10>>
  \* line 33: \t\t\t\ttaskLine = fmt.Sprintf("U+2192 %s %s%s", task.ID, task.Title, trackInfo)\n
  \o <<9, 9, 9, 9, 116, 97, 115, 107, 76, 105, 110, 101, 32, 61, 32, 102, 109, 116, 46, 83, 112,
       114, 105, 110, 116, 102, 40, 34, 8594, 32, 37, 115, 32, 37, 115, 37, 115, 34, 44, 32, 116,
       97, 115, 107, 46, 73, 68, 44, 32, 116, 97, 115, 107, 46, 84, 105, 116, 108, 101, 44, 32,
       116, 114, 97, 99, 107, 73, 110, 102, 111, 41, 10>>
  \* line 34: \t\t\t\ts += selectedTrackStyle.Render(taskLine) + "\n"\n
  \o <<9, 9, 9, 9, 115, 32, 43, 61, 32, 115, 101, 108, 101, 99, 116, 101, 100, 84, 114, 97, 99,
       107, 83, 116, 121, 108, 101, 46, 82, 101, 110, 100, 101, 114, 40, 116, 97, 115, 107, 76,
       105, 110, 101, 41, 32, 43, 32, 34, 92, 110, 34, 10>>
  \* line 35: \t\t\t} else {\n
  \o <<9, 9, 9, 125, 32, 101, 108, 115, 101, 32, 123, 10>>
  \* line 36: \t\t\t\ttaskLine = fmt.Sprintf("  %s %s%s", task.ID, task.Title, trackInfo)\n
  \o <<9, 9, 9, 9, 116, 97, 115, 107, 76, 105, 110, 101, 32, 61, 32, 102, 109, 116, 46, 83, 112,
       114, 105, 110, 116, 102, 40, 34, 32, 32, 37, 115, 32, 37, 115, 37, 115, 34, 44, 32, 116,
       97, 115, 107, 46, 73, 68, 44, 32, 116, 97, 115, 107, 46, 84, 105, 116, 108, 101, 44, 32,
       116, 114, 97, 99, 107, 73, 110, 102, 111, 41, 10>>
  \* line 37: \t\t\t\ts += trackItemStyle.Render(taskLine) + "\n"\n
  \o <<9, 9, 9, 9, 115, 32, 43, 61, 32, 116, 114, 97, 99, 107, 73, 116, 101, 109, 83, 116, 121,
       108, 101, 46, 82, 101, 110, 100, 101, 114, 40, 116, 97, 115, 107, 76, 105, 110, 101, 41,
       32, 43, 32, 34, 92, 110, 34, 10>>
  \* line 38: \t\t\t}\n
  \o <<9, 9, 9, 125, 10>>
  \* line 39: \t\t}
  \o <<9, 9, 125>>
(***************************************************************************)
(* open(path, 'r') / open(path, 'w'): text mode, encoding UTF-8 (the       *)
(* locale's encoding on the systems the script runs on), errors='strict',  *)
(* newline=None.                                                           *)
(***************************************************************************)
\* A UTF-8 continuation byte, 10xxxxxx.
IsCont(b) == b >= 128 /\ b <= 191

\* The length of the character a lead byte starts; 0 for a byte that starts none.
LeadLen(b) ==
  IF b < 128 THEN 1
  ELSE IF b >= 194 /\ b <= 223 THEN 2
  ELSE IF b >= 224 /\ b <= 239 THEN 3
  ELSE IF b >= 240 /\ b <= 244 THEN 4
  ELSE 0

\* The second byte of a character: no overlong form, no surrogate, at most U+10FFFF.
SecondOk(lead, b2) ==
  CASE lead = 224 -> b2 >= 160 /\ b2 <= 191
    [] lead = 237 -> b2 >= 128 /\ b2 <= 159
    [] lead = 240 -> b2 >= 144 /\ b2 <= 191
    [] lead = 244 -> b2 >= 128 /\ b2 <= 143
    [] OTHER -> IsCont(b2)

\* A well-formed character starts at byte i.
WellFormedAt(b, i) ==
  LET n == LeadLen(b[i])
  IN  /\ n > 0
      /\ i + n - 1 <= Len(b)
      /\ (n > 1 => SecondOk(b[i], b[i + 1]))
      /\ \A k \in 2..(n - 1) : IsCont(b[i + k])

\* The continuation byte i belongs to a character that starts before it.
Owned(b, i) ==
  \E k \in 1..3 :
    /\ i - k >= 1
    /\ ~IsCont(b[i - k])
    /\ LeadLen(b[i - k]) > k
    /\ \A j \in (i - k + 1)..(i - 1) : IsCont(b[j])

\* The code point of the character that starts at byte i.
CodePointAt(b, i) ==
  CASE LeadLen(b[i]) = 1 -> b[i]
    [] LeadLen(b[i]) = 2 -> (b[i] - 192) * 64 + (b[i + 1] - 128)
    [] LeadLen(b[i]) = 3 ->
         (b[i] - 224) * 4096 + (b[i + 1] - 128) * 64 + (b[i + 2] - 128)
    [] OTHER ->
         (b[i] - 240) * 262144 + (b[i + 1] - 128) * 4096
           + (b[i + 2] - 128) * 64 + (b[i + 3] - 128)

\* bytes.decode('utf-8'): ok is FALSE where Python raises UnicodeDecodeError.
UTF8Decode(b) ==
  LET ok == \A i \in 1..Len(b) :
              IF IsCont(b[i]) THEN Owned(b, i) ELSE WellFormedAt(b, i)
  IN  [ok   |-> ok,
       text |-> IF ok
                THEN Flat([i \in 1..Len(b) |->
                             IF IsCont(b[i]) THEN <<>> ELSE <<CodePointAt(b, i)>>],
                          1, Len(b))
                ELSE <<>>]

\* The UTF-8 bytes of one code point.
EncodeChar(c) ==
  IF c < 128 THEN <<c>>
  ELSE IF c < 2048 THEN <<192 + (c \div 64), 128 + (c % 64)>>
  ELSE IF c < 65536
       THEN <<224 + (c \div 4096), 128 + ((c \div 64) % 64), 128 + (c % 64)>>
  ELSE <<240 + (c \div 262144), 128 + ((c \div 4096) % 64),
         128 + ((c \div 64) % 64), 128 + (c % 64)>>

\* str.encode('utf-8').
UTF8Encode(s) == Flat([i \in 1..Len(s) |-> EncodeChar(s[i])], 1, Len(s))

\* Reading with newline=None: "\r\n" and a lone "\r" both become "\n".
UniversalNewlines(t) ==
  Flat([i \in 1..Len(t) |->
          IF t[i] = 13 THEN <<10>>
          ELSE IF t[i] = 10 /\ i > 1 /\ t[i - 1] = 13 THEN <<>>
          ELSE <<t[i]>>],
       1, Len(t))

\* os.linesep on the POSIX systems the script runs on.
linesep == <<10>>

\* Writing with newline=None: each "\n" becomes os.linesep.
WriteNewlines(t) ==
  Flat([i \in 1..Len(t) |-> IF t[i] = 10 THEN linesep ELSE <<t[i]>>], 1, Len(t))

\* f.read() of a text-mode file holding the bytes b.
ReadText(b) ==
  LET d == UTF8Decode(b)
  IN  [ok |-> d.ok, text |-> UniversalNewlines(d.text)]

\* The bytes f.write(s) puts into a text-mode file.
WriteBytes(s) == UTF8Encode(WriteNewlines(s))

\* A write through a handle opened for appending: the data goes to the end.
OverlayAppend(old, data) == old \o data

\* A write of data at offset 0 of a file holding old: bytes of old beyond the
\* data stay. After the truncation of open(path, 'w') old is empty, unless
\* another process has written in between.
Overlay(old, data) == data \o SubSeq(old, Len(data) + 1, Len(old))

(***************************************************************************)
(* re.sub(pattern, repl, string, flags=re.MULTILINE).                      *)
(*                                                                         *)
(* The patterns of the model are old_pattern and its malformed variant:    *)
(* literal characters, backslash-escaped punctuation, and parentheses.     *)
(* re.MULTILINE changes only ^ and $, which they do not use.               *)
(***************************************************************************)
RECURSIVE BackslashesBefore(_, _)
\* The number of consecutive backslashes that end right before position i.
BackslashesBefore(p, i) ==
  IF i > 1 /\ p[i - 1] = 92 THEN 1 + BackslashesBefore(p, i - 1) ELSE 0

\* Position i is the character a backslash escapes.
Escaped(p, i) == BackslashesBefore(p, i) % 2 = 1

\* Position i is a backslash that escapes the next character.
IsEscape(p, i) == p[i] = 92 /\ ~Escaped(p, i)

\* Position i is a group parenthesis (40 is "(", 41 is ")").
IsParen(p, i, c) == p[i] = c /\ ~Escaped(p, i)

\* re.compile(p) succeeds: Python raises re.error for a backslash at the end of
\* the pattern and for unbalanced parentheses.
Compiles(p) ==
  \E opens \in {{i \in 1..Len(p) : IsParen(p, i, 40)}} :
    \E closes \in {{i \in 1..Len(p) : IsParen(p, i, 41)}} :
      /\ (Len(p) > 0 => ~IsEscape(p, Len(p)))
      /\ Cardinality(opens) = Cardinality(closes)
      /\ \A c \in closes :
           Cardinality({o \in opens : o < c})
             >= Cardinality({d \in closes : d <= c})

\* The text the pattern p matches.
Literal(p) ==
  Flat([i \in 1..Len(p) |->
          IF IsEscape(p, i) \/ IsParen(p, i, 40) \/ IsParen(p, i, 41)
          THEN <<>> ELSE <<p[i]>>],
       1, Len(p))

\* re.compile(p): ok is FALSE where Python raises re.error; lit is the text the
\* pattern matches.
Compile(p) == [ok |-> Compiles(p), lit |-> Literal(p)]

\* The escapes re.sub expands in a replacement: \a \b \f \n \r \t \v \\.
TemplateEscapes == {97, 98, 102, 110, 114, 116, 118, 92}

\* The character an escape of the replacement stands for.
EscapeChar(c) ==
  CASE c = 110 -> 10
    [] c = 116 -> 9
    [] c = 114 -> 13
    [] c = 97 -> 7
    [] c = 98 -> 8
    [] c = 102 -> 12
    [] c = 118 -> 11
    [] OTHER -> c

\* An ASCII letter or digit.
IsAlnum(c) ==
  \/ c >= 48 /\ c <= 57
  \/ c >= 65 /\ c <= 90
  \/ c >= 97 /\ c <= 122

\* re's parse_template(repl): re.sub treats repl as a template, not as literal
\* text. A known escape is expanded; a backslash before any other letter, or
\* before a digit that names a group the pattern does not have, is an re.error;
\* a backslash before any other character stays, with that character.
ExpandTemplate(r) ==
  [ok   |-> /\ (Len(r) > 0 => ~IsEscape(r, Len(r)))
            /\ \A i \in 1..Len(r) :
                 (Escaped(r, i) /\ IsAlnum(r[i])) => r[i] \in TemplateEscapes,
   text |-> Flat([i \in 1..Len(r) |->
                    IF IsEscape(r, i) THEN <<>>
                    ELSE IF Escaped(r, i)
                         THEN IF r[i] \in TemplateEscapes
                              THEN <<EscapeChar(r[i])>>
                              ELSE <<92, r[i]>>
                    ELSE <<r[i]>>],
                 1, Len(r))]

\* The text lit occurs in s at position i.
MatchAt(lit, s, i) == \A k \in 1..Len(lit) : s[i + k - 1] = lit[k]

\* The leftmost position >= from where lit occurs in s; 0 if there is none.
FirstMatch(lit, s, from) ==
  LET at == {i \in from..(Len(s) - Len(lit) + 1) : MatchAt(lit, s, i)}
  IN  IF at = {} THEN 0 ELSE Min(at)

RECURSIVE SubFrom(_, _, _, _)
\* s from position from on, with every non-overlapping occurrence of lit,
\* leftmost first, replaced by text.
SubFrom(lit, text, s, from) ==
  LET m == FirstMatch(lit, s, from)
  IN  IF m = 0 THEN SubSeq(s, from, Len(s))
      ELSE SubSeq(s, from, m - 1) \o text \o SubFrom(lit, text, s, m + Len(lit))

RECURSIVE CountFrom(_, _, _)
\* The number of non-overlapping occurrences of lit in s from position from on.
CountFrom(lit, s, from) ==
  LET m == FirstMatch(lit, s, from)
  IN  IF m = 0 THEN 0 ELSE 1 + CountFrom(lit, s, m + Len(lit))

\* re.sub(p, r, s): ok is FALSE where it raises re.error.
ReSub(p, r, s) ==
  LET c == Compile(p)
      t == ExpandTemplate(r)
  IN  [ok   |-> c.ok /\ t.ok,
       text |-> IF c.ok /\ t.ok THEN SubFrom(c.lit, t.text, s, 1) ELSE s,
       n    |-> IF c.ok /\ t.ok THEN CountFrom(c.lit, s, 1) ELSE 0]

(***************************************************************************)
(* The files and the arguments the script is run on.                       *)
(***************************************************************************)
\* TargetBlock with one more space of indentation on its second line.
NearBlock ==
  LET nl == Min({i \in 1..Len(TargetBlock) : TargetBlock[i] = 10})
  IN  SubSeq(TargetBlock, 1, nl) \o <<32>>
        \o SubSeq(TargetBlock, nl + 1, Len(TargetBlock))

\* The pieces initial files are made of: the block the script looks for, the
\* same block with the indentation off by one space, a line "x\n", a Windows
\* line end "\r\n", and a byte that is not UTF-8.
Segments ==
  {UTF8Encode(TargetBlock), UTF8Encode(NearBlock), <<120, 10>>, <<13, 10>>, <<255>>}

RECURSIVE Files(_)
\* The byte sequences made of at most n segments.
Files(n) ==
  IF n = 0 THEN {<<>>}
  ELSE LET prev == Files(n - 1)
       IN  prev \cup {f \o s : f \in prev, s \in Segments}

\* old_pattern with the backslash of its first "\(" left out: "(" then opens a
\* group that is never closed, and re.compile raises re.error.
BadPattern ==
  LET k == Min({i \in 1..(Len(old_pattern) - 1) :
                  IsEscape(old_pattern, i) /\ old_pattern[i + 1] = 40})
  IN  SubSeq(old_pattern, 1, k - 1) \o SubSeq(old_pattern, k + 1, Len(old_pattern))

\* rewrite(path, matcher, replacement): the script's pair, and the pair with a
\* matcher that does not compile.
Matchers == {old_pattern, BadPattern}
Replacements == {new_replacement}

\* The access rights of the file: read-write, read-only, write-only.
Perms == {[r |-> TRUE, w |-> TRUE], [r |-> TRUE, w |-> FALSE], [r |-> FALSE, w |-> TRUE]}

NoFile == [exists |-> FALSE, bytes |-> <<>>]
FileOf(b) == [exists |-> TRUE, bytes |-> b]

\* The statements of the script, in program order.
Steps == <<"open_r", "read", "sub", "open_w", "write", "print">>

\* src line 48.
Message == "Updated TUI models successfully"

\* The scripts that run.
Procs == DOMAIN pc

\* The state in which the scripts ps start on a file of at most n segments.
InitOf(ps, n) ==
  /\ disk \in {NoFile} \cup {FileOf(b) : b \in Files(n)}
  /\ perm \in Perms
  /\ matcher \in Matchers
  /\ replacement \in Replacements
  /\ pc = [p \in ps |-> "open_r"]
  /\ content = [p \in ps |-> <<>>]
  /\ err = [p \in ps |-> "none"]
  /\ rfd = [p \in ps |-> FALSE]
  /\ rbuf = [p \in ps |-> <<>>]
  /\ rcap = [p \in ps |-> 0]
  /\ wfd = [p \in ps |-> FALSE]
  /\ out = [p \in ps |-> <<>>]
  /\ log = [p \in ps |-> <<>>]
  /\ nmatch = <<>>
  /\ orig = disk
  /\ runs = 0
  /\ lastWriter = 0
  /\ fileOps = <<>>

(***************************************************************************)
(* The statements. An exception ends the script: err is set, pc stays at   *)
(* the statement that raised, and a with block closes its handle.          *)
(***************************************************************************)
\* Statement pc[p] completes and control moves to next.
Advance(p, next) ==
  /\ pc' = [pc EXCEPT ![p] = next]
  /\ log' = [log EXCEPT ![p] = Append(@, pc[p])]

\* The exception is caught and the script starts over.
RaiseAndRetry(p, e) ==
  /\ pc' = [pc EXCEPT ![p] = "open_r"]
  /\ UNCHANGED <<err, log>>

\* Statement pc[p] raises e, which nothing catches.
Raise(p, e) ==
  /\ err' = [err EXCEPT ![p] = e]
  /\ UNCHANGED <<pc, log>>

\* The file is opened with a mode that creates it when it is missing.
OpenReadCreating(p) ==
  /\ pc[p] = "open_r" /\ err[p] = "none"
  /\ IF disk.exists /\ ~perm.r
     THEN Raise(p, "PermissionError") /\ UNCHANGED <<rfd, rbuf, rcap, disk>>
     ELSE /\ disk' = IF disk.exists THEN disk ELSE FileOf(<<>>)
          /\ rfd' = [rfd EXCEPT ![p] = TRUE]
          /\ Advance(p, "read")
          /\ UNCHANGED err
  /\ UNCHANGED <<perm, matcher, replacement, content, rbuf, rcap, wfd, out, nmatch,
                 orig, runs, lastWriter, fileOps>>

\* src line 6: with open(path, 'r') as f.
OpenRead(p) ==
  /\ pc[p] = "open_r" /\ err[p] = "none"
  /\ IF ~disk.exists
     THEN Raise(p, "FileNotFoundError") /\ UNCHANGED rfd
     ELSE IF ~perm.r
     THEN Raise(p, "PermissionError") /\ UNCHANGED rfd
     ELSE /\ rfd' = [rfd EXCEPT ![p] = TRUE]
          /\ Advance(p, "read")
          /\ UNCHANGED err
  /\ UNCHANGED <<disk, perm, matcher, replacement, content, rbuf, rcap, wfd, out,
                 nmatch, orig, runs, lastWriter, fileOps>>

\* f.read() reads the whole file (FileIO.readall): an fstat for the size of the
\* buffer, then read() system calls, each into what is left of the buffer, until
\* one returns 0. Another process may act between any two of them.

\* readall's new_buffersize(currentsize): the buffer grows by its size plus 256
\* (by an eighth above 65536), and by 8192 at least.
NewBufferSize(n) ==
  LET addend == IF n > 65536 THEN n \div 8 ELSE 256 + n
  IN  n + (IF addend < 8192 THEN 8192 ELSE addend)

\* src line 7, content = f.read(): the fstat. The buffer is one byte larger than
\* the file, 8192 bytes for an empty file.
ReadStat(p) ==
  /\ pc[p] = "read" /\ err[p] = "none" /\ rcap[p] = 0
  /\ rcap' = [rcap EXCEPT ![p] =
                IF Len(disk.bytes) > 0 THEN Len(disk.bytes) + 1 ELSE 8192]
  /\ UNCHANGED <<disk, perm, matcher, replacement, pc, content, err, rfd, rbuf, wfd,
                 out, log, nmatch, orig, runs, lastWriter, fileOps>>

\* The bytes the next read() returns, with a buffer of cap bytes: what the file
\* holds beyond the bytes read so far, as far as the buffer has room.
NextBytes(p, cap) ==
  LET off  == Len(rbuf[p])
      room == cap - off
      left == IF Len(disk.bytes) > off THEN Len(disk.bytes) - off ELSE 0
  IN  SubSeq(disk.bytes, off + 1, off + (IF left < room THEN left ELSE room))

\* The file is read without a with block: the handle is never closed.
ReadCallLeavingOpen(p) ==
  /\ pc[p] = "read" /\ err[p] = "none" /\ rcap[p] > 0
  /\ LET cap  == IF Len(rbuf[p]) >= rcap[p]
                 THEN NewBufferSize(Len(rbuf[p])) ELSE rcap[p]
         more == NextBytes(p, cap)
     IN  IF more # <<>>
         THEN /\ rbuf' = [rbuf EXCEPT ![p] = @ \o more]
              /\ rcap' = [rcap EXCEPT ![p] = cap]
              /\ UNCHANGED <<pc, log, content, err, rfd>>
         ELSE /\ LET rd == ReadText(rbuf[p])
                 IN  IF rd.ok
                     THEN /\ content' = [content EXCEPT ![p] = rd.text]
                          /\ Advance(p, "sub")
                          /\ UNCHANGED err
                     ELSE /\ Raise(p, "UnicodeDecodeError")
                          /\ UNCHANGED content
              /\ rbuf' = [rbuf EXCEPT ![p] = <<>>]
              /\ rcap' = [rcap EXCEPT ![p] = 0]
              /\ UNCHANGED rfd
  /\ UNCHANGED <<disk, perm, matcher, replacement, wfd, out, nmatch, orig, runs,
                 lastWriter, fileOps>>

\* src line 7, content = f.read(): one read() system call. When it returns
\* nothing the file has been read: the bytes are decoded into content and the
\* with block closes the handle.
ReadCall(p) ==
  /\ pc[p] = "read" /\ err[p] = "none" /\ rcap[p] > 0
  /\ LET cap  == IF Len(rbuf[p]) >= rcap[p]
                 THEN NewBufferSize(Len(rbuf[p])) ELSE rcap[p]
         more == NextBytes(p, cap)
     IN  IF more # <<>>
         THEN /\ rbuf' = [rbuf EXCEPT ![p] = @ \o more]
              /\ rcap' = [rcap EXCEPT ![p] = cap]
              /\ UNCHANGED <<pc, log, content, err, rfd>>
         ELSE /\ LET rd == ReadText(rbuf[p])
                 IN  IF rd.ok
                     THEN /\ content' = [content EXCEPT ![p] = rd.text]
                          /\ Advance(p, "sub")
                          /\ UNCHANGED err
                     ELSE /\ Raise(p, "UnicodeDecodeError")
                          /\ UNCHANGED content
              /\ rbuf' = [rbuf EXCEPT ![p] = <<>>]
              /\ rcap' = [rcap EXCEPT ![p] = 0]
              /\ rfd' = [rfd EXCEPT ![p] = FALSE]
  /\ UNCHANGED <<disk, perm, matcher, replacement, wfd, out, nmatch, orig, runs,
                 lastWriter, fileOps>>

\* The re.error is swallowed and the script goes on with the content as read.
SubstituteIgnoringError(p) ==
  /\ pc[p] = "sub" /\ err[p] = "none"
  /\ LET res == ReSub(matcher, replacement, content[p])
     IN  /\ content' = [content EXCEPT ![p] = res.text]
         /\ nmatch' = Append(nmatch, res.n)
         /\ Advance(p, "open_w")
  /\ UNCHANGED <<disk, perm, matcher, replacement, err, rfd, rbuf, rcap, wfd, out, orig, runs,
                 lastWriter, fileOps>>

\* src line 42: content = re.sub(old_pattern, new_replacement, content, ...).
Substitute(p) ==
  /\ pc[p] = "sub" /\ err[p] = "none"
  /\ LET res == ReSub(matcher, replacement, content[p])
     IN  IF res.ok
         THEN /\ content' = [content EXCEPT ![p] = res.text]
              /\ nmatch' = Append(nmatch, res.n)
              /\ Advance(p, "open_w")
              /\ UNCHANGED err
         ELSE /\ Raise(p, "re.error")
              /\ UNCHANGED <<content, nmatch>>
  /\ UNCHANGED <<disk, perm, matcher, replacement, rfd, rbuf, rcap, wfd, out, orig, runs,
                 lastWriter, fileOps>>

\* The file is opened for update, which does not truncate it.
OpenWriteNoTruncate(p) ==
  /\ pc[p] = "open_w" /\ err[p] = "none"
  /\ IF disk.exists /\ ~perm.w
     THEN /\ Raise(p, "PermissionError")
          /\ UNCHANGED <<wfd, fileOps>>
     ELSE /\ wfd' = [wfd EXCEPT ![p] = TRUE]
          /\ fileOps' = Append(fileOps, <<p, "truncate">>)
          /\ Advance(p, "write")
          /\ UNCHANGED err
  /\ UNCHANGED <<disk, perm, matcher, replacement, content, rfd, rbuf, rcap, out, nmatch, orig,
                 runs, lastWriter>>

\* src line 45: with open(path, 'w') as f. Opening truncates the file.
OpenWrite(p) ==
  /\ pc[p] = "open_w" /\ err[p] = "none"
  /\ IF disk.exists /\ ~perm.w
     THEN /\ Raise(p, "PermissionError")
          /\ UNCHANGED <<disk, wfd, fileOps>>
     ELSE /\ disk' = FileOf(<<>>)
          /\ wfd' = [wfd EXCEPT ![p] = TRUE]
          /\ fileOps' = Append(fileOps, <<p, "truncate">>)
          /\ Advance(p, "write")
          /\ UNCHANGED err
  /\ UNCHANGED <<perm, matcher, replacement, content, rfd, rbuf, rcap, out, nmatch, orig,
                 runs, lastWriter>>

\* src line 46: f.write(content), and the end of the with block, which flushes
\* the buffer to the file at this handle's offset, 0, and closes the handle.
Write(p) ==
  /\ pc[p] = "write" /\ err[p] = "none"
  /\ disk' = [disk EXCEPT !.bytes = Overlay(@, WriteBytes(content[p]))]
  /\ lastWriter' = p
  /\ fileOps' = Append(fileOps, <<p, "write">>)
  /\ Advance(p, "print")
  /\ wfd' = [wfd EXCEPT ![p] = FALSE]
  /\ UNCHANGED <<perm, matcher, replacement, content, err, rfd, rbuf, rcap, out,
                 nmatch, orig, runs>>

\* The number of bytes of data in the file when line 46 has failed. The buffer
\* is flushed by the close of the with block, in write() system calls that may
\* fail or stop short; after a flush that failed, close() flushes once more and
\* closes the file, and the close itself may fail. So the failure leaves any
\* number of the bytes, all of them included, and empty data can fail too.
PartialLens(data) == 0..Len(data)

\* src line 46, when a write() or the close fails: OSError, with the first k
\* bytes written.
WriteFail(p) ==
  /\ pc[p] = "write" /\ err[p] = "none"
  /\ \E data \in {WriteBytes(content[p])} :
       \E k \in PartialLens(data) :
         disk' = [disk EXCEPT !.bytes = Overlay(@, SubSeq(data, 1, k))]
  /\ Raise(p, "OSError")
  /\ wfd' = [wfd EXCEPT ![p] = FALSE]
  /\ UNCHANGED <<perm, matcher, replacement, content, rfd, rbuf, rcap, out, nmatch,
                 orig, runs, lastWriter, fileOps>>

\* src line 48: print("Updated TUI models successfully").
PrintMessage(p) ==
  /\ pc[p] = "print" /\ err[p] = "none"
  /\ out' = [out EXCEPT ![p] = Append(@, Message)]
  /\ Advance(p, "done")
  /\ UNCHANGED <<disk, perm, matcher, replacement, content, err, rfd, rbuf, rcap, wfd, nmatch,
                 orig, runs, lastWriter, fileOps>>

\* The script is started again, the same arguments on the same path, after a
\* run that succeeded.
Rerun ==
  /\ \A p \in Procs : pc[p] = "done"
  /\ runs + 1 < MaxRuns
  /\ runs' = runs + 1
  /\ orig' = disk
  /\ pc' = [p \in Procs |-> "open_r"]
  /\ content' = [p \in Procs |-> <<>>]
  /\ out' = [p \in Procs |-> <<>>]
  /\ log' = [p \in Procs |-> <<>>]
  /\ lastWriter' = 0
  /\ fileOps' = <<>>
  /\ UNCHANGED <<disk, perm, matcher, replacement, err, rfd, rbuf, rcap, wfd, nmatch>>

(***************************************************************************)
(* Spec: one script at a time, run up to MaxRuns times in a row.           *)
(* SpecRace: two scripts started on the same path, their system calls      *)
(* interleaved, up to the state in which both have finished; a script      *)
(* whose write fails never finishes, so SpecRace leaves WriteFail out.     *)
(***************************************************************************)
Init == InitOf({1}, MaxSegs)

Next ==
  \/ \E p \in Procs : OpenRead(p)
  \/ \E p \in Procs : ReadStat(p)
  \/ \E p \in Procs : ReadCall(p)
  \/ \E p \in Procs : Substitute(p)
  \/ \E p \in Procs : OpenWrite(p)
  \/ \E p \in Procs : Write(p)
  \/ \E p \in Procs : WriteFail(p)
  \/ \E p \in Procs : PrintMessage(p)
  \/ Rerun

Spec == Init /\ [][Next]_vars

InitRace == InitOf({1, 2}, MaxRaceSegs)

NextRace ==
  \/ \E p \in Procs : OpenRead(p)
  \/ \E p \in Procs : ReadStat(p)
  \/ \E p \in Procs : ReadCall(p)
  \/ \E p \in Procs : Substitute(p)
  \/ \E p \in Procs : OpenWrite(p)
  \/ \E p \in Procs : Write(p)
  \/ \E p \in Procs : PrintMessage(p)

SpecRace == InitRace /\ [][NextRace]_vars

(***************************************************************************)
(* Properties.                                                             *)
(***************************************************************************)
\* The bytes the matcher matches, and the bytes of the replacement as given.
MatcherBytes == UTF8Encode(Literal(matcher))
ReplacementBytes == UTF8Encode(replacement)

\* The number of substitutions made by the current run of a script that is
\* past line 42.
CurrentCount == nmatch[Len(nmatch)]

\* The bytes a run leaves in a file that held b: read, re.sub, write.
Rewritten(b) == WriteBytes(ReSub(matcher, replacement, ReadText(b).text).text)

\* Script p is past line 42.
PastSub(p) == pc[p] \in {"open_w", "write", "print", "done"}

\* C1: when the matcher occurs N >= 1 times in the file, a run that succeeds
\* leaves the original bytes with each occurrence replaced by the replacement
\* text and every other byte as it was.
C1_OccurrencesReplacedRestVerbatim ==
  \A p \in Procs :
    (pc[p] = "done" /\ Compiles(matcher)
       /\ CountFrom(MatcherBytes, orig.bytes, 1) >= 1)
    => disk = FileOf(SubFrom(MatcherBytes, ReplacementBytes, orig.bytes, 1))

\* C2: when the matcher does not occur in the file, a run still writes, leaves
\* the file byte for byte as it was, and prints the confirmation.
C2_NoMatchLeavesBytes ==
  \A p \in Procs :
    (pc[p] = "done" /\ Compiles(matcher)
       /\ CountFrom(MatcherBytes, orig.bytes, 1) = 0)
    => disk = orig /\ out[p] = <<Message>>

\* C3: the replacement is literal text: after a substitution that found a match,
\* content is the text read with each match replaced by the replacement string,
\* character for character.
C3_ReplacementIsLiteral ==
  \A p \in Procs :
    (PastSub(p) /\ CurrentCount >= 1)
    => content[p] = SubFrom(Literal(matcher), replacement,
                            ReadText(orig.bytes).text, 1)

\* C4: idempotence: a run that follows a successful run which replaced the
\* occurrences of the matcher finds nothing to replace and leaves the file as
\* that first run left it.
C4_SecondRunIsNoOp ==
  \A p \in Procs :
    (runs >= 1 /\ nmatch[runs] >= 1 /\ pc[p] = "done")
    => disk = orig /\ CurrentCount = 0

\* C4's case: the first run replaced two occurrences, the second run is done.
C4_Witness ==
  runs = 1 /\ pc[1] = "done" /\ nmatch[1] = 2 /\ disk = orig

\* C5: when the path does not exist, the run fails with FileNotFoundError at
\* line 6: nothing after it runs, the file is not created, nothing is printed.
C5_MissingFileFailsAtOpen ==
  \A p \in Procs :
    ~orig.exists
    => /\ pc[p] = "open_r" /\ log[p] = <<>>
       /\ err[p] \in {"none", "FileNotFoundError"}
       /\ ~disk.exists
       /\ ~rfd[p] /\ ~wfd[p]
       /\ out[p] = <<>>

\* C5's case: a run on a missing path has failed.
C5_Witness == ~orig.exists /\ err[1] = "FileNotFoundError" /\ ~disk.exists

\* C6: when the matcher does not compile, the file is never opened for writing,
\* its content stays what it was before the run, and nothing is printed.
C6_PatternErrorLeavesFile ==
  \A p \in Procs :
    ~Compiles(matcher)
    => /\ pc[p] \in {"open_r", "read", "sub"}
       /\ ~wfd[p]
       /\ disk = orig
       /\ out[p] = <<>>

\* C6's case: a run with a matcher that does not compile has failed, on a
\* file that is not empty.
C6_Witness ==
  ~Compiles(matcher) /\ err[1] = "re.error" /\ disk = orig /\ orig.bytes # <<>>

\* C7, as claimed: the pattern error is raised before the file has been opened
\* or read.
C7_PatternErrorBeforeAnyIO ==
  \A p \in Procs : err[p] = "re.error" => log[p] = <<>>

\* C7, amended: the pattern error is raised at line 42, after the file has been
\* opened, read and closed, and before it is opened for writing.
C7_PatternErrorAfterRead ==
  \A p \in Procs :
    err[p] = "re.error"
    => /\ log[p] = <<"open_r", "read">>
       /\ pc[p] = "sub"
       /\ ~rfd[p] /\ ~wfd[p]
       /\ content[p] = ReadText(orig.bytes).text

\* C7's case: the pattern error was raised with the file already read.
C7_Witness ==
  err[1] = "re.error" /\ log[1] = <<"open_r", "read">> /\ content[1] # <<>>

\* The statement a script is at after completing n statements.
StepAfter(n) == IF n < Len(Steps) THEN Steps[n + 1] ELSE "done"

\* C8: control flow is linear: the statements completed are a prefix of open,
\* read, substitute, open for writing, write, print, each once; the write handle
\* is open only with the read handle closed; the confirmation is printed once,
\* after the write; a run that failed has printed nothing and takes no further
\* step.
C8_Linear ==
  \A p \in Procs :
    /\ Len(log[p]) <= Len(Steps)
    /\ log[p] = SubSeq(Steps, 1, Len(log[p]))
    /\ pc[p] = StepAfter(Len(log[p]))
    /\ rfd[p] => pc[p] = "read"
    /\ wfd[p] => pc[p] = "write" /\ ~rfd[p]
    /\ out[p] = IF pc[p] = "done" THEN <<Message>> ELSE <<>>
    /\ err[p] # "none" => pc[p] # "done" /\ out[p] = <<>>

\* C8, the step part: a script that has failed does nothing more.
C8_FailureIsTerminal ==
  \A p \in Procs :
    err[p] # "none"
    => /\ pc'[p] = pc[p] /\ err'[p] = err[p] /\ log'[p] = log[p]
       /\ out'[p] = out[p] /\ disk' = disk

\* C8: control flow is strictly linear, with one confirmation after the write
\* and none, and no further step, in a run that failed.
C8_LinearControlFlow == [](C8_Linear) /\ [][C8_FailureIsTerminal]_vars

\* C8's case: a run went through all six statements and changed the file.
C8_Witness ==
  pc[1] = "done" /\ log[1] = Steps /\ out[1] = <<Message>> /\ disk # orig

\* The other script of the race.
Other(p) == CHOOSE q \in Procs : q # p

\* C9, as claimed: after both scripts have finished, the file is exactly what
\* the script whose write completed last wrote.
C9_LastWriterWins ==
  (\A p \in Procs : pc[p] = "done")
  => disk.bytes = WriteBytes(content[lastWriter])

\* The position of script p's operation op in fileOps (0: it has not happened).
OpAt(p, op) ==
  IF \E i \in 1..Len(fileOps) : fileOps[i] = <<p, op>>
  THEN CHOOSE i \in 1..Len(fileOps) : fileOps[i] = <<p, op>>
  ELSE 0

\* The other script's write completed after the last writer's open for writing
\* had truncated the file, so the last write found the other's bytes in it.
WroteIntoOpenFile == OpAt(Other(lastWriter), "write") > OpAt(lastWriter, "truncate")

\* C9, amended: after both scripts have finished, the file is what the script
\* whose write completed last wrote, laid at offset 0 over what the file held
\* then: exactly that when the other's write came before the last writer's
\* truncation; that followed by the other's bytes beyond its length when the
\* other's write came after the truncation.
C9_LastWriteOverlays ==
  (\A p \in Procs : pc[p] = "done")
  => LET w == WriteBytes(content[lastWriter])
         o == WriteBytes(content[Other(lastWriter)])
     IN  /\ \A p \in Procs : 0 < OpAt(p, "truncate") /\ OpAt(p, "truncate") < OpAt(p, "write")
         /\ OpAt(lastWriter, "write") = Len(fileOps)
         /\ disk.bytes = IF WroteIntoOpenFile
                         THEN w \o SubSeq(o, Len(w) + 1, Len(o))
                         ELSE w

\* C9's case: both scripts are done; the second read the file while the first
\* had it truncated, opened it for writing before the first wrote, and wrote
\* nothing last: the file holds what the first wrote.
C9_Witness ==
  /\ \A p \in Procs : pc[p] = "done"
  /\ lastWriter = 2
  /\ WroteIntoOpenFile
  /\ content[2] = <<>> /\ content[1] # <<>>
  /\ disk.bytes = WriteBytes(content[1])

\* C10: outside the window between the open for writing and the end of the
\* write, the file is what it was before the run (up to line 45, the refused
\* open included) or, after the write, the substituted content; so only a
\* failure of the write itself leaves anything else.
C10_FileOutsideWriteWindow ==
  \A p \in Procs :
    /\ pc[p] \in {"open_r", "read", "sub", "open_w"} => disk = orig
    /\ pc[p] \in {"print", "done"} => disk = FileOf(Rewritten(orig.bytes))

\* C10's case: the open for writing was refused, on a file the run would have
\* changed.
C10_Witness ==
  /\ pc[1] = "open_w" /\ err[1] = "PermissionError"
  /\ disk = orig /\ orig.bytes # Rewritten(orig.bytes)

====
